---- MODULE Spec2Model ----
(***************************************************************************)
(* Model of the inventory dashboard: utils.validate_excel_file,            *)
(* utils.load_and_process_inventory and the batch loop of main.py.         *)
(*                                                                         *)
(* Numbers are exact rationals n/d; the three special floating point       *)
(* values a pandas division can produce (NaN, +inf, -inf) are separate     *)
(* kinds.  A blank spreadsheet cell is read by pandas as NaN; a cell with  *)
(* non-numeric text is a string.  Library semantics follow pandas 2.x      *)
(* (reductions skip NaN; summing an object row that holds a string raises  *)
(* TypeError).                                                             *)
(***************************************************************************)
EXTENDS Integers, Sequences, FiniteSets, TLC

(***************************************************************************)
(* Bounds of the model.                                                    *)
(***************************************************************************)
MaxFiles == 2
MaxRows == 2
MaxVal == 2

(***************************************************************************)
(* Values held by table cells and by metrics.                              *)
(***************************************************************************)
RECURSIVE GCD(_, _)
GCD(a, b) == IF b = 0 THEN a ELSE GCD(b, a % b)

Abs(x) == IF x < 0 THEN -x ELSE x

Fin(n) == [k |-> "fin", n |-> n, d |-> 1, s |-> ""]
NaN == [k |-> "nan", n |-> 0, d |-> 1, s |-> ""]
PosInf == [k |-> "inf", n |-> 0, d |-> 1, s |-> ""]
NegInf == [k |-> "ninf", n |-> 0, d |-> 1, s |-> ""]
Txt(str) == [k |-> "txt", n |-> 0, d |-> 1, s |-> str]
Zero == Fin(0)

\* the rational n/d (d # 0) in lowest terms with a positive denominator
Rat(n, d) ==
    LET g == GCD(Abs(n), Abs(d))
        sg == IF d < 0 THEN -1 ELSE 1
    IN  [k |-> "fin", n |-> (sg * n) \div g, d |-> (sg * d) \div g, s |-> ""]

IsFin(x) == x.k = "fin"
IsZero(x) == x.k = "fin" /\ x.n = 0
Sign(x) == IF x.k = "inf" THEN 1
           ELSE IF x.k = "ninf" THEN -1
           ELSE IF x.n > 0 THEN 1 ELSE IF x.n < 0 THEN -1 ELSE 0
Signed(sg) == IF sg > 0 THEN PosInf ELSE IF sg < 0 THEN NegInf ELSE NaN

\* float addition, subtraction, multiplication and division (numpy semantics:
\* x/0 is +-inf, 0/0 is NaN, NaN propagates)
Add(a, b) ==
    IF a.k = "nan" \/ b.k = "nan" THEN NaN
    ELSE IF IsFin(a) /\ IsFin(b) THEN Rat(a.n * b.d + b.n * a.d, a.d * b.d)
    ELSE IF IsFin(a) THEN b
    ELSE IF IsFin(b) \/ a.k = b.k THEN a
    ELSE NaN

Neg(a) ==
    IF a.k = "inf" THEN NegInf
    ELSE IF a.k = "ninf" THEN PosInf
    ELSE IF a.k = "nan" THEN NaN
    ELSE Rat(-a.n, a.d)

Sub(a, b) == Add(a, Neg(b))

Mul(a, b) ==
    IF a.k = "nan" \/ b.k = "nan" THEN NaN
    ELSE IF IsFin(a) /\ IsFin(b) THEN Rat(a.n * b.n, a.d * b.d)
    ELSE Signed(Sign(a) * Sign(b))

Div(a, b) ==
    IF a.k = "nan" \/ b.k = "nan" THEN NaN
    ELSE IF IsFin(a) /\ IsFin(b)
         THEN IF b.n = 0 THEN Signed(Sign(a)) ELSE Rat(a.n * b.d, a.d * b.n)
    ELSE IF IsFin(b) THEN Signed(Sign(a) * (IF Sign(b) < 0 THEN -1 ELSE 1))
    ELSE IF IsFin(a) THEN Zero
    ELSE NaN

(***************************************************************************)
(* pandas Series (sequences of values) and the operations the code uses.   *)
(***************************************************************************)
\* the function f of domain 1..n as a sequence (a tuple of its n values)
AsSeq(f) == SubSeq(f, 1, Len(f))

\* pd.to_numeric(series, errors='coerce'): what is not a number becomes NaN
ToNumeric(ser) ==
    AsSeq([i \in 1..Len(ser) |-> IF ser[i].k = "txt" THEN NaN ELSE ser[i]])

\* series.fillna(0)
FillNa0(ser) ==
    AsSeq([i \in 1..Len(ser) |-> IF ser[i].k = "nan" THEN Zero ELSE ser[i]])

\* series.replace([np.inf, -np.inf], 0)
ReplaceInf0(ser) ==
    AsSeq([i \in 1..Len(ser) |-> IF ser[i].k \in {"inf", "ninf"} THEN Zero ELSE ser[i]])

\* elementwise arithmetic of two series of one table (same index)
SerMul(a, b) == AsSeq([i \in 1..Len(a) |-> Mul(a[i], b[i])])
SerSub(a, b) == AsSeq([i \in 1..Len(a) |-> Sub(a[i], b[i])])
SerDiv(a, b) == AsSeq([i \in 1..Len(a) |-> Div(a[i], b[i])])
SerScale(a, c) == AsSeq([i \in 1..Len(a) |-> Mul(a[i], c)])
SerAdd(a, b) == AsSeq([i \in 1..Len(a) |-> Add(a[i], b[i])])

\* the product of two series of different tables: pandas aligns them on the
\* row index, a label present in only one of them gives NaN
AlignedMul(a, b) ==
    LET n == IF Len(a) > Len(b) THEN Len(a) ELSE Len(b)
    IN  AsSeq([i \in 1..n |-> IF i <= Len(a) /\ i <= Len(b) THEN Mul(a[i], b[i]) ELSE NaN])

\* series.sum(): NaN entries are skipped, the empty sum is 0
RECURSIVE SumUpTo(_, _)
SumUpTo(ser, n) ==
    IF n = 0 THEN Zero
    ELSE IF ser[n].k = "nan" THEN SumUpTo(ser, n - 1)
    ELSE Add(SumUpTo(ser, n - 1), ser[n])

SerSum(ser) == SumUpTo(ser, Len(ser))

\* series.mean(): NaN entries are skipped, the mean of nothing is NaN
SerMean(ser) ==
    LET cnt == Cardinality({i \in 1..Len(ser) : ser[i].k # "nan"})
    IN  IF cnt = 0 THEN NaN ELSE Div(SerSum(ser), Fin(cnt))

\* v1 < v2 for values that are not NaN
Less(a, b) ==
    IF a.k = "ninf" THEN b.k # "ninf"
    ELSE IF a.k = "inf" THEN FALSE
    ELSE IF b.k = "inf" THEN TRUE
    ELSE IF b.k = "ninf" THEN FALSE
    ELSE a.n * b.d < b.n * a.d

\* the last row holding the maximum
IdxMaxLast(ser) ==
    CHOOSE i \in 1..Len(ser) :
        /\ \A j \in 1..Len(ser) : ~Less(ser[i], ser[j])
        /\ \A j \in (i + 1)..Len(ser) : Less(ser[j], ser[i])

\* series.idxmax() / series.idxmin(): the first row holding the extreme value
IdxMax(ser) ==
    CHOOSE i \in 1..Len(ser) :
        /\ \A j \in 1..Len(ser) : ~Less(ser[i], ser[j])
        /\ \A j \in 1..(i - 1) : Less(ser[j], ser[i])

IdxMin(ser) ==
    CHOOSE i \in 1..Len(ser) :
        /\ \A j \in 1..Len(ser) : ~Less(ser[j], ser[i])
        /\ \A j \in 1..(i - 1) : Less(ser[i], ser[j])

(***************************************************************************)
(* Tables (pandas DataFrames): a set of column names and the rows in       *)
(* source order, each row a function from the column names to values.      *)
(***************************************************************************)
Table(cols, rows) == [columns |-> cols, rows |-> rows]

\* df[c]
Col(df, c) == AsSeq([i \in 1..Len(df.rows) |-> df.rows[i][c]])

\* df[c] = series (replaces the column or appends it)
SetCol(df, c, ser) ==
    Table(df.columns \cup {c},
          AsSeq([i \in 1..Len(df.rows) |-> (c :> ser[i]) @@ df.rows[i]]))

\* df.empty: no rows or no columns
IsEmpty(df) == Len(df.rows) = 0 \/ df.columns = {}

\* df.rename(columns=mapping, inplace=True): columns the mapping does not
\* name are kept as they are
Rename(df, mapping) ==
    LET to(c) == IF c \in DOMAIN mapping THEN mapping[c] ELSE c
        cols == {to(c) : c \in df.columns}
        from(x) == CHOOSE c \in df.columns : to(c) = x
    IN  Table(cols, AsSeq([i \in 1..Len(df.rows) |-> [x \in cols |-> df.rows[i][from(x)]]]))

InventarioRename ==
    [c \in {"Codigo", "Descripcion", "Stock", "Precio Sala", "Outlet"} |->
        CASE c = "Codigo" -> "Item_Number"
          [] c = "Descripcion" -> "Description"
          [] c = "Stock" -> "Units_Sold"
          [] c = "Precio Sala" -> "Floor_Price"
          [] c = "Outlet" -> "Outlet_Price"]

\* (the accented headers of the outlet sheet are spelled without accents)
OutletRename ==
    [c \in {"Numero de articulo", "Descripcion del articulo", "Total anual",
            "Stock al 1 de oct"} |->
        CASE c = "Numero de articulo" -> "Item_Number"
          [] c = "Descripcion del articulo" -> "Description"
          [] c = "Total anual" -> "Total_Annual_Sales"
          [] c = "Stock al 1 de oct" -> "Units_In_Stock"]

monthly_columns ==
    << "Enero", "Febrero", "Marzo", "Abril", "Mayo", "Junio", "Julio", "Agosto",
       "Septiembre" >>

MonthSet == {monthly_columns[m] : m \in 1..Len(monthly_columns)}

\* one row of df[monthly_columns], as a series over the months
MonthCells(row) == AsSeq([m \in 1..Len(monthly_columns) |-> row[monthly_columns[m]]])

\* df[monthly_columns].sum(axis=1): the sum of each row over the months
MonthlySum(df) == AsSeq([i \in 1..Len(df.rows) |-> SerSum(MonthCells(df.rows[i]))])

\* a string among the summed cells makes the row sum raise TypeError
MonthlyHasText(df) ==
    \E i \in 1..Len(df.rows) : \E m \in 1..Len(monthly_columns) :
        df.rows[i][monthly_columns[m]].k = "txt"

(***************************************************************************)
(* utils.validate_excel_file                                               *)
(***************************************************************************)
required_sheets == {"Inventario", "Outlet"}

\* a validator that stops at the first required sheet it misses
validate_fail_fast(file) ==
    IF ~file.readable
    THEN [is_valid |-> FALSE, message |-> "Error validating file", missing |-> {}]
    ELSE IF "Inventario" \notin DOMAIN file.sheets
    THEN [is_valid |-> FALSE, message |-> "Missing required sheets", missing |-> {"Inventario"}]
    ELSE IF "Outlet" \notin DOMAIN file.sheets
    THEN [is_valid |-> FALSE, message |-> "Missing required sheets", missing |-> {"Outlet"}]
    ELSE [is_valid |-> TRUE, message |-> "File is valid", missing |-> {}]

validate_excel_file(file) ==
    IF ~file.readable
    THEN [is_valid |-> FALSE, message |-> "Error validating file", missing |-> {}]
    ELSE LET file_sheets == DOMAIN file.sheets
         IN  IF ~(required_sheets \subseteq file_sheets)
             THEN [is_valid |-> FALSE, message |-> "Missing required sheets",
                   missing |-> required_sheets \ file_sheets]
             ELSE [is_valid |-> TRUE, message |-> "File is valid", missing |-> {}]

(***************************************************************************)
(* utils.load_and_process_inventory                                        *)
(***************************************************************************)
Raise(e) == [ok |-> FALSE, error |-> e]

Return(inv, out, m) ==
    [ok |-> TRUE, inventario_df |-> inv, outlet_df |-> out, metrics |-> m]

\* a coercion that forgets fillna(0)
CoerceNoFill(df, c) == SetCol(df, c, ToNumeric(Col(df, c)))

\* df[c] = pd.to_numeric(df[c], errors='coerce').fillna(0)
Coerce(df, c) == SetCol(df, c, FillNa0(ToNumeric(Col(df, c))))

TotalSalesOutletPrice(inv) == SerMul(Col(inv, "Outlet_Price"), Col(inv, "Units_Sold"))

TotalSalesFloorPrice(inv) == SerMul(Col(inv, "Floor_Price"), Col(inv, "Units_Sold"))

AverageSellingPrice(inv) ==
    ReplaceInf0(SerDiv(Col(inv, "Total_Sales_Outlet_Price"), Col(inv, "Units_Sold")))

DiscountPercentage(inv) ==
    ReplaceInf0(SerScale(SerDiv(SerSub(Col(inv, "Floor_Price"), Col(inv, "Outlet_Price")),
                                Col(inv, "Floor_Price")),
                         Fin(100)))

TotalUnitsSold(out) == MonthlySum(out)

\* a beginning inventory that forgets the units in stock
BeginningInventoryNoStock(out) == MonthlySum(out)

BeginningInventory(out) == SerAdd(MonthlySum(out), Col(out, "Units_In_Stock"))

InventoryTurnover(inv, out) ==
    LET cost_of_goods_sold == SerSum(SerMul(Col(inv, "Units_Sold"), Col(inv, "Outlet_Price")))
        average_inventory == SerMean(Col(out, "Units_In_Stock"))
    IN  IF ~IsZero(average_inventory) THEN Div(cost_of_goods_sold, average_inventory)
        ELSE Zero

SellThroughRate(out) ==
    LET total_units_sold == SerSum(Col(out, "Total_Units_Sold"))
        total_units_in_stock == SerSum(Col(out, "Units_In_Stock"))
        total == Add(total_units_sold, total_units_in_stock)
    IN  IF ~IsZero(total) THEN Mul(Div(total_units_sold, total), Fin(100)) ELSE Zero

\* a ratio that pairs the rows of the two tables by Item_Number
StockToSalesRatioByItem(inv, out) ==
    LET keyed == "Item_Number" \in inv.columns /\ "Item_Number" \in out.columns
        price(i) ==
            IF ~keyed THEN (IF i <= Len(inv.rows) THEN inv.rows[i]["Outlet_Price"] ELSE NaN)
            ELSE IF \E j \in 1..Len(inv.rows) :
                       inv.rows[j]["Item_Number"] = out.rows[i]["Item_Number"]
            THEN inv.rows[CHOOSE j \in 1..Len(inv.rows) :
                              inv.rows[j]["Item_Number"] = out.rows[i]["Item_Number"]]["Outlet_Price"]
            ELSE NaN
        inventory_value ==
            SerSum(AsSeq([i \in 1..Len(out.rows) |->
                             Mul(out.rows[i]["Units_In_Stock"], price(i))]))
        total_sales == SerSum(Col(inv, "Total_Sales_Outlet_Price"))
    IN  IF ~IsZero(total_sales) THEN Div(inventory_value, total_sales) ELSE Zero

StockToSalesRatio(inv, out) ==
    LET inventory_value ==
            SerSum(AlignedMul(Col(out, "Units_In_Stock"), Col(inv, "Outlet_Price")))
        total_sales == SerSum(Col(inv, "Total_Sales_Outlet_Price"))
    IN  IF ~IsZero(total_sales) THEN Div(inventory_value, total_sales) ELSE Zero

\* the coverage without the test of its denominator
InventoryCoverageUnguarded(inv, out) ==
    Div(SerSum(Col(out, "Units_In_Stock")), Div(SerSum(Col(inv, "Units_Sold")), Fin(30)))

InventoryCoverage(inv, out) ==
    LET monthly_sales_rate == Div(SerSum(Col(inv, "Units_Sold")), Fin(30))
    IN  IF ~IsZero(monthly_sales_rate)
        THEN Div(SerSum(Col(out, "Units_In_Stock")), monthly_sales_rate)
        ELSE Zero

BestSeller(inv) ==
    LET best_selling == inv.rows[IdxMax(Col(inv, "Units_Sold"))]
    IN  [description |-> best_selling["Description"], units |-> best_selling["Units_Sold"]]

WorstSeller(inv) ==
    LET least_selling == inv.rows[IdxMin(Col(inv, "Units_Sold"))]
    IN  [description |-> least_selling["Description"], units |-> least_selling["Units_Sold"]]

\* inventario_df[inventario_df['Units_Sold'] == 0]['Description'].tolist()
RECURSIVE UnsoldUpTo(_, _)
UnsoldUpTo(inv, n) ==
    IF n = 0 THEN << >>
    ELSE IF IsZero(inv.rows[n]["Units_Sold"])
         THEN Append(UnsoldUpTo(inv, n - 1), inv.rows[n]["Description"])
         ELSE UnsoldUpTo(inv, n - 1)

\* the unsold items with the rows of negative units_sold among them
RECURSIVE UnsoldOrReturnedUpTo(_, _)
UnsoldOrReturnedUpTo(inv, n) ==
    IF n = 0 THEN << >>
    ELSE IF inv.rows[n]["Units_Sold"].n <= 0
         THEN Append(UnsoldOrReturnedUpTo(inv, n - 1), inv.rows[n]["Description"])
         ELSE UnsoldOrReturnedUpTo(inv, n - 1)

UnsoldItemsNotPositive(inv) == UnsoldOrReturnedUpTo(inv, Len(inv.rows))

UnsoldItems(inv) == UnsoldUpTo(inv, Len(inv.rows))

\* lines 76-84: the derived columns of the inventory table, one assignment
\* after the other
WithTotalSalesOutletPrice(inv) ==
    SetCol(inv, "Total_Sales_Outlet_Price", TotalSalesOutletPrice(inv))

WithTotalSalesFloorPrice(inv) ==
    SetCol(inv, "Total_Sales_Floor_Price", TotalSalesFloorPrice(inv))

WithAverageSellingPrice(inv) ==
    SetCol(inv, "Average_Selling_Price", AverageSellingPrice(inv))

WithDiscountPercentage(inv) ==
    SetCol(inv, "Discount_Percentage", DiscountPercentage(inv))

DeriveInventario(inv) ==
    WithDiscountPercentage(WithAverageSellingPrice(
        WithTotalSalesFloorPrice(WithTotalSalesOutletPrice(inv))))

\* lines 87-88: the derived columns of the outlet table
WithTotalUnitsSold(out) == SetCol(out, "Total_Units_Sold", TotalUnitsSold(out))

WithBeginningInventory(out) == SetCol(out, "Beginning_Inventory", BeginningInventory(out))

DeriveOutlet(out) == WithBeginningInventory(WithTotalUnitsSold(out))

\* lines 90-138: the metrics record
CompileMetrics(inv, out) ==
    [total_sales_outlet |-> SerSum(Col(inv, "Total_Sales_Outlet_Price")),
     total_sales_floor |-> SerSum(Col(inv, "Total_Sales_Floor_Price")),
     total_units_sold |-> SerSum(Col(out, "Total_Units_Sold")),
     avg_selling_price |-> SerMean(Col(inv, "Average_Selling_Price")),
     avg_discount |-> SerMean(Col(inv, "Discount_Percentage")),
     inventory_turnover |-> InventoryTurnover(inv, out),
     sell_through_rate |-> SellThroughRate(out),
     stock_to_sales_ratio |-> StockToSalesRatio(inv, out),
     inventory_coverage |-> InventoryCoverage(inv, out),
     best_seller |-> BestSeller(inv),
     worst_seller |-> WorstSeller(inv),
     unsold_items |-> UnsoldItems(inv)]

\* the name of the first column a subscript does not find, in the order the
\* code reads the columns up to the monthly sums ("" when none is missing)
MissingKey(inv, out) ==
    IF "Outlet_Price" \notin inv.columns THEN "Outlet_Price"
    ELSE IF "Units_Sold" \notin inv.columns THEN "Units_Sold"
    ELSE IF "Floor_Price" \notin inv.columns THEN "Floor_Price"
    ELSE IF "Units_In_Stock" \notin out.columns THEN "Units_In_Stock"
    ELSE IF ~(MonthSet \subseteq out.columns) THEN "monthly_columns"
    ELSE ""

\* lines 70-140, on the tables with their numeric columns coerced
AfterDerive(inv, out) == Return(inv, out, CompileMetrics(inv, out))

AfterCoerce(inv, out) ==
    IF MonthlyHasText(out)
    THEN Raise("TypeError")
    ELSE IF "Description" \notin inv.columns
    THEN Raise("KeyError")
    ELSE AfterDerive(DeriveInventario(inv), DeriveOutlet(out))

\* lines 64-68, on the renamed tables
AfterRename(inv, out) ==
    IF MissingKey(inv, out) # ""
    THEN Raise("KeyError")
    ELSE AfterCoerce(Coerce(Coerce(Coerce(inv, "Outlet_Price"), "Units_Sold"), "Floor_Price"),
                     Coerce(out, "Units_In_Stock"))

\* a loader that reads the columns before it tests for empty sheets
load_columns_first(file) ==
    IF ~file.readable
    THEN Raise("ValueError: Error loading Excel file: not a workbook")
    ELSE IF ~({"Inventario", "Outlet"} \subseteq DOMAIN file.sheets)
    THEN Raise("ValueError: Error loading Excel file: worksheet not found")
    ELSE IF MissingKey(Rename(file.sheets["Inventario"], InventarioRename),
                       Rename(file.sheets["Outlet"], OutletRename)) # ""
    THEN Raise("KeyError")
    ELSE IF IsEmpty(file.sheets["Inventario"]) \/ IsEmpty(file.sheets["Outlet"])
    THEN Raise("ValueError: Error loading Excel file: One or more sheets are empty")
    ELSE AfterRename(Rename(file.sheets["Inventario"], InventarioRename),
                     Rename(file.sheets["Outlet"], OutletRename))

load_and_process_inventory(file) ==
    IF ~file.readable
    THEN Raise("ValueError: Error loading Excel file: not a workbook")
    ELSE IF ~({"Inventario", "Outlet"} \subseteq DOMAIN file.sheets)
    THEN Raise("ValueError: Error loading Excel file: worksheet not found")
    ELSE IF IsEmpty(file.sheets["Inventario"]) \/ IsEmpty(file.sheets["Outlet"])
    THEN Raise("ValueError: Error loading Excel file: One or more sheets are empty")
    ELSE AfterRename(Rename(file.sheets["Inventario"], InventarioRename),
                     Rename(file.sheets["Outlet"], OutletRename))

(***************************************************************************)
(* The workbooks the model uploads.                                        *)
(***************************************************************************)
InvHeaders == {"Codigo", "Descripcion", "Stock", "Precio Sala", "Outlet"}

OutHeaders ==
    {"Numero de articulo", "Descripcion del articulo", "Total anual", "Stock al 1 de oct"}
        \cup MonthSet

\* a cell of a numeric column: a number, non-numeric text, or a blank (NaN)
Cells == {Fin(v) : v \in -1..MaxVal} \cup {Txt("N/A"), NaN}

Descs == {"A", "B"}

InvRow(code, desc, stock, floor, outlet) ==
    [c \in InvHeaders |->
        CASE c = "Codigo" -> Fin(code)
          [] c = "Descripcion" -> Txt(desc)
          [] c = "Stock" -> stock
          [] c = "Precio Sala" -> floor
          [] c = "Outlet" -> outlet]

\* months is a function from 1..9 to cells
OutRow(code, desc, stock, months) ==
    [c \in OutHeaders |->
        CASE c = "Numero de articulo" -> Fin(code)
          [] c = "Descripcion del articulo" -> Txt(desc)
          [] c = "Total anual" -> Zero
          [] c = "Stock al 1 de oct" -> stock
          [] OTHER -> months[CHOOSE m \in 1..Len(monthly_columns) : monthly_columns[m] = c]]

Workbook(inv, out) ==
    [readable |-> TRUE,
     sheets |-> [sh \in {"Inventario", "Outlet"} |-> IF sh = "Inventario" THEN inv ELSE out]]

\* the non-empty sequences of at most MaxRows elements of S
RowSeqs(S) == UNION {[1..n -> S] : n \in 1..MaxRows}

AllMonths(v) == [m \in 1..Len(monthly_columns) |-> v]

PlainInv(n) ==
    Table(InvHeaders, [i \in 1..n |-> InvRow(i, IF i % 2 = 1 THEN "A" ELSE "B",
                                             Fin(i), Fin(2), Fin(1))])

PlainOut(n) ==
    Table(OutHeaders, [i \in 1..n |-> OutRow(i, IF i % 2 = 1 THEN "A" ELSE "B",
                                             Fin(1), AllMonths(Fin(1)))])

\* one inventory row and one outlet row
WbRow(st, fl, ou, us, mv) ==
    Workbook(Table(InvHeaders, << InvRow(1, "A", st, fl, ou) >>),
             Table(OutHeaders, << OutRow(1, "A", us, AllMonths(mv)) >>))

\* several inventory rows that differ in description and units sold (r), and
\* n plain outlet rows
WbStock(r, n) ==
    Workbook(Table(InvHeaders,
                   [i \in 1..Len(r) |-> InvRow(i, r[i][1], r[i][2], Fin(2), Fin(1))]),
             PlainOut(n))

\* several inventory rows (r: units sold, floor price, outlet price) and
\* several outlet rows (q: units in stock, units of every month)
WbPrice(r, q) ==
    Workbook(Table(InvHeaders,
                   [i \in 1..Len(r) |-> InvRow(i, IF i % 2 = 1 THEN "A" ELSE "B",
                                               r[i][1], r[i][2], r[i][3])]),
             Table(OutHeaders,
                   [i \in 1..Len(q) |-> OutRow(i, "A", q[i][1], AllMonths(q[i][2]))]))

\* several outlet rows (q: units in stock, the cell of the monthly column col)
WbOutlet(q, col) ==
    Workbook(PlainInv(1),
             Table(OutHeaders,
                   [i \in 1..Len(q) |->
                       OutRow(i, "A", q[i][1],
                              [m \in 1..Len(monthly_columns) |->
                                  IF m = col THEN q[i][2] ELSE Fin(m % 2)])]))

\* inventory rows that differ in outlet price (r) and outlet rows that differ
\* in units in stock (q); the outlet sheet starts at the second item
WbKeyed(r, q) ==
    Workbook(Table(InvHeaders,
                   [i \in 1..Len(r) |-> InvRow(i, "A", Fin(1), Fin(2), r[i])]),
             Table(OutHeaders,
                   [i \in 1..Len(q) |-> OutRow(i + 1, "A", q[i], AllMonths(Zero))]))

\* a table without some of its columns, with one plain row or none
Restrict(df, missing, n) ==
    Table(df.columns \ missing,
          [i \in 1..n |-> [c \in df.columns \ missing |-> df.rows[i][c]]])

AtMostOne(S) == {{}} \cup {{c} : c \in S}

\* a sheet as read with one header missing or none, or a blank sheet
SchemaTables(df) ==
    {Restrict(df, m, n) : m \in AtMostOne(df.columns), n \in 0..1} \cup {Table({}, << >>)}

SheetNames == {"Inventario", "Outlet", "inventario", "Hoja1"}

Unreadable == [readable |-> FALSE, sheets |-> << >>]

\* a workbook with the sheets S
WbSheets(S) ==
    [readable |-> TRUE,
     sheets |-> [sh \in S |-> IF sh = "Outlet" THEN PlainOut(1) ELSE PlainInv(1)]]

\* the workbooks of the batches of several files
Catalogue ==
    {Workbook(PlainInv(1), PlainOut(1)),
     Workbook(PlainInv(2), PlainOut(2)),
     Workbook(PlainInv(1), Table(OutHeaders, << OutRow(1, "A", Fin(1), AllMonths(Txt("N/A"))) >>)),
     Workbook(PlainInv(1), Restrict(PlainOut(1), {}, 0)),
     [readable |-> TRUE, sheets |-> [sh \in {"Outlet"} |-> PlainOut(1)]],
     Unreadable}

FileNames == {"a.xlsx", "b.xlsx"}

UploadedFile(name, wb) == [name |-> name, wb |-> wb]

Single(wb) == << UploadedFile("a.xlsx", wb) >>

\* the uploads of the model: one file of one of the families above, or a
\* batch of several files of the catalogue
Uploads(files) ==
    \/ \E st \in Cells, fl \in Cells, ou \in Cells, us \in Cells, mv \in {Zero, Fin(1)} :
          files = Single(WbRow(st, fl, ou, us, mv))
    \/ \E r \in RowSeqs(Descs \X Cells), n \in 1..MaxRows :
          files = Single(WbStock(r, n))
    \/ \E r \in RowSeqs({Zero, Fin(1)} \X {Zero, Fin(2)} \X {Zero, Fin(1)}),
          q \in RowSeqs({<< Zero, Zero >>, << Fin(1), Zero >>, << Zero, Fin(1) >>}) :
          files = Single(WbPrice(r, q))
    \/ \E q \in RowSeqs({Zero, Fin(1)} \X Cells), col \in 1..Len(monthly_columns) :
          files = Single(WbOutlet(q, col))
    \/ \E r \in RowSeqs({Fin(1), Fin(2)}), q \in RowSeqs({Zero, Fin(1), Fin(2)}) :
          files = Single(WbKeyed(r, q))
    \/ \E inv \in SchemaTables(PlainInv(1)), out \in SchemaTables(PlainOut(1)) :
          files = Single(Workbook(inv, out))
    \/ \E S \in SUBSET SheetNames : files = Single(WbSheets(S))
    \/ files = Single(Unreadable)
    \/ \E n \in 2..MaxFiles :
          files \in [1..n -> {UploadedFile(nm, wb) : nm \in FileNames, wb \in Catalogue}]

(***************************************************************************)
(* main.py: the batch loop over the uploaded files and the page it renders. *)
(***************************************************************************)
VARIABLES
    uploaded_files,   \* the files of the uploader widget, in order
    idx,              \* position of uploaded_file in uploaded_files
    pc,               \* "validate", "process", "done" or "rendered"
    is_valid,         \* result of the last validate_excel_file
    message,
    processed_data,   \* file name -> the triple stored for it
    processed_keys,   \* the keys of processed_data, in insertion order
    inventario_df,    \* the script-level names bound by the last successful
    outlet_df,        \* call of load_and_process_inventory
    metrics,
    errors,           \* the st.error messages shown so far
    selected_files,   \* the value of the comparison multiselect
    page,             \* what the individual file analysis has rendered
    calls             \* history: the calls of the two functions, in order

vars == << uploaded_files, idx, pc, is_valid, message, processed_data,
           processed_keys, inventario_df, outlet_df, metrics, errors,
           selected_files, page, calls >>

Unbound == [unbound |-> TRUE]

uploaded_file == uploaded_files[idx]

Init ==
    /\ Uploads(uploaded_files)
    /\ idx = 1
    /\ pc = "validate"
    /\ is_valid = FALSE
    /\ message = ""
    /\ processed_data = << >>
    /\ processed_keys = << >>
    /\ inventario_df = Unbound
    /\ outlet_df = Unbound
    /\ metrics = Unbound
    /\ errors = << >>
    /\ selected_files = Unbound
    /\ page = Unbound
    /\ calls = << >>

\* the for statement takes the next file or leaves the loop
NextFile ==
    /\ idx' = idx + 1
    /\ pc' = IF idx + 1 > Len(uploaded_files) THEN "done" ELSE "validate"

\* lines 47-51
Validate ==
    /\ pc = "validate"
    /\ \E r \in {validate_excel_file(uploaded_file.wb)} :
           /\ is_valid' = r.is_valid
           /\ message' = r.message
           /\ calls' = Append(calls, [op |-> "validate", file |-> idx, ok |-> r.is_valid])
           /\ \/ /\ ~r.is_valid
                 /\ errors' = Append(errors, [file |-> idx, name |-> uploaded_file.name,
                                              text |-> r.message, missing |-> r.missing])
                 /\ NextFile
              \/ /\ r.is_valid
                 /\ pc' = "process"
                 /\ UNCHANGED << idx, errors >>
    /\ UNCHANGED << uploaded_files, processed_data, processed_keys, inventario_df,
                    outlet_df, metrics, selected_files, page >>

\* lines 54-64
Process ==
    /\ pc = "process"
    /\ \E r \in {load_and_process_inventory(uploaded_file.wb)} :
           /\ calls' = Append(calls, [op |-> "process", file |-> idx, ok |-> r.ok])
           /\ \/ /\ r.ok
                 /\ inventario_df' = r.inventario_df
                 /\ outlet_df' = r.outlet_df
                 /\ metrics' = r.metrics
                 /\ processed_data' =
                        [n \in DOMAIN processed_data \cup {uploaded_file.name} |->
                            IF n = uploaded_file.name
                            THEN [inventario_df |-> r.inventario_df,
                                  outlet_df |-> r.outlet_df,
                                  metrics |-> r.metrics]
                            ELSE processed_data[n]]
                 /\ processed_keys' =
                        IF uploaded_file.name \in DOMAIN processed_data
                        THEN processed_keys
                        ELSE Append(processed_keys, uploaded_file.name)
                 /\ UNCHANGED errors
              \/ /\ ~r.ok
                 /\ errors' = Append(errors, [file |-> idx, name |-> uploaded_file.name,
                                              text |-> r.error, missing |-> {}])
                 /\ UNCHANGED << processed_data, processed_keys, inventario_df,
                                 outlet_df, metrics >>
    /\ NextFile
    /\ UNCHANGED << uploaded_files, is_valid, message, selected_files, page >>

\* the values st.multiselect can return: any of the options, each once, in
\* the order they were selected (the default is the first two options)
Selections(options) ==
    {sel \in UNION {[1..n -> {options[i] : i \in 1..Len(options)}] : n \in 0..Len(options)} :
        \A i, j \in 1..Len(sel) : i # j => sel[i] # sel[j]}

\* lines 78-133: each loop of the comparison binds the script-level name
\* metrics to the metrics of the selected files in turn
CompareFiles(sel, m) ==
    IF Len(sel) > 1 THEN processed_data[sel[Len(sel)]].metrics ELSE m

\* lines 145-149: one expander per entry, each with three empty columns;
\* lines 151-193 follow the loop and fill the columns of the last expander
\* with the cards of the script-level metrics m
Expanders(m) ==
    AsSeq([i \in 1..Len(processed_keys) |->
              [file_name |-> processed_keys[i],
               metrics |-> IF i = Len(processed_keys) THEN m ELSE Unbound]])

\* lines 143-442: the expanders, then once, below them, the product
\* performance of the script-level metrics and the charts and tables of the
\* script-level outlet_df and inventario_df
IndividualFileAnalysis(m) ==
    [expanders |-> Expanders(m),
     metrics |-> m,
     inventario_df |-> inventario_df,
     outlet_df |-> outlet_df]

\* lines 66-442, after the loop
Render ==
    /\ pc = "done"
    /\ Len(processed_keys) > 0
    /\ \/ /\ Len(processed_keys) > 1
          /\ \E sel \in Selections(processed_keys) :
                 /\ selected_files' = sel
                 /\ metrics' = CompareFiles(sel, metrics)
                 /\ page' = IndividualFileAnalysis(CompareFiles(sel, metrics))
       \/ /\ Len(processed_keys) = 1
          /\ page' = IndividualFileAnalysis(metrics)
          /\ UNCHANGED << selected_files, metrics >>
    /\ pc' = "rendered"
    /\ UNCHANGED << uploaded_files, idx, is_valid, message, processed_data,
                    processed_keys, inventario_df, outlet_df, errors, calls >>

Next == Validate \/ Process \/ Render

Spec == Init /\ [][Next]_vars

(***************************************************************************)
(* Properties.                                                             *)
(***************************************************************************)
LastCall == calls[Len(calls)]

\* the workbook of the last call
Input == uploaded_files[LastCall.file].wb

Validated == Len(calls) > 0 /\ LastCall.op = "validate" /\ pc # "rendered"

Processed == Len(calls) > 0 /\ LastCall.op = "process" /\ pc # "rendered"

\* load_and_process_inventory has just returned its triple, which the script
\* holds in inventario_df, outlet_df and metrics
Returned == Processed /\ LastCall.ok

\* ... or has just raised
Raised == Processed /\ ~LastCall.ok

Rows(df) == 1..Len(df.rows)

\* what a raw cell of a coerced column counts for: its number, 0 for text or
\* a blank (the cells of the model hold integers)
Counts(cell) == IF cell.k = "fin" THEN cell.n ELSE 0

RECURSIVE IntSum(_, _)
IntSum(f, n) == IF n = 0 THEN 0 ELSE IntSum(f, n - 1) + f[n]

\* C1: on a readable workbook validate_excel_file succeeds exactly when both
\* "Inventario" and "Outlet" are among the sheet names, and otherwise reports
\* exactly the required names that are absent.
C1_Validate ==
    (Validated /\ Input.readable) =>
        LET names == DOMAIN Input.sheets
        IN  /\ is_valid = ("Inventario" \in names /\ "Outlet" \in names)
            /\ LastCall.ok = is_valid
            /\ is_valid => message = "File is valid"
            /\ ~is_valid =>
                  /\ message = "Missing required sheets"
                  /\ errors[Len(errors)].file = LastCall.file
                  /\ errors[Len(errors)].missing =
                        {n \in {"Inventario", "Outlet"} : n \notin names}

\* both required sheets are absent (a sheet "inventario" is no match)
C1_Witness ==
    /\ Validated
    /\ Input.readable
    /\ "inventario" \in DOMAIN Input.sheets
    /\ ~is_valid
    /\ errors[Len(errors)].missing = {"Inventario", "Outlet"}

\* C2: every returned inventory row with units_sold = 0 has
\* average_selling_price = 0 (never infinity, never not-a-number).
C2_AverageSellingPriceZero ==
    Returned =>
        \A i \in Rows(inventario_df) :
            IsZero(inventario_df.rows[i]["Units_Sold"]) =>
                inventario_df.rows[i]["Average_Selling_Price"] = Zero

\* C3: every returned inventory row with floor_price = 0 has
\* discount_percentage = 0 for every outlet_price, outlet_price = 0 included.
C3_DiscountPercentageZero ==
    Returned =>
        \A i \in Rows(inventario_df) :
            IsZero(inventario_df.rows[i]["Floor_Price"]) =>
                inventario_df.rows[i]["Discount_Percentage"] = Zero

\* the sums the four aggregate metrics are made of, as integers
SumUnitsInStock == IntSum([i \in Rows(outlet_df) |-> outlet_df.rows[i]["Units_In_Stock"].n],
                          Len(outlet_df.rows))

SumTotalUnitsSold == IntSum([i \in Rows(outlet_df) |-> outlet_df.rows[i]["Total_Units_Sold"].n],
                            Len(outlet_df.rows))

SumUnitsSold == IntSum([i \in Rows(inventario_df) |-> inventario_df.rows[i]["Units_Sold"].n],
                       Len(inventario_df.rows))

SumSales ==
    IntSum([i \in Rows(inventario_df) |->
               inventario_df.rows[i]["Units_Sold"].n * inventario_df.rows[i]["Outlet_Price"].n],
           Len(inventario_df.rows))

PairedRows == IF Len(outlet_df.rows) < Len(inventario_df.rows)
              THEN Len(outlet_df.rows) ELSE Len(inventario_df.rows)

SumStockValue ==
    IntSum([i \in 1..PairedRows |->
               outlet_df.rows[i]["Units_In_Stock"].n * inventario_df.rows[i]["Outlet_Price"].n],
           PairedRows)

\* m is 0 when den = 0 and the quotient num / den otherwise
IsQuotient(m, num, den) ==
    /\ m.k = "fin"
    /\ m.d > 0
    /\ IF den = 0 THEN m.n = 0 ELSE m.n * den = num * m.d

\* C4: each of inventory_turnover, sell_through_rate, stock_to_sales_ratio and
\* inventory_coverage is 0 when its own denominator is 0 and the quotient of
\* its formula otherwise, and is never infinity or not-a-number.
C4_AggregateQuotients ==
    Returned =>
        /\ IsQuotient(metrics.inventory_turnover,
                      SumSales * Len(outlet_df.rows), SumUnitsInStock)
        /\ IsQuotient(metrics.sell_through_rate,
                      SumTotalUnitsSold * 100, SumTotalUnitsSold + SumUnitsInStock)
        /\ IsQuotient(metrics.stock_to_sales_ratio, SumStockValue, SumSales)
        /\ IsQuotient(metrics.inventory_coverage, SumUnitsInStock * 30, SumUnitsSold)

\* nothing in stock and nothing sold in the inventory table, units sold in
\* the outlet table: three denominators are 0, the fourth is not
C4_Witness ==
    /\ Returned
    /\ SumUnitsInStock = 0
    /\ SumUnitsSold = 0
    /\ SumSales = 0
    /\ SumTotalUnitsSold > 0
    /\ metrics.inventory_coverage = Zero
    /\ metrics.sell_through_rate = Fin(100)

\* the workbook has both sheets, each with rows and with all its headers
Complete(wb) ==
    /\ wb.readable
    /\ {"Inventario", "Outlet"} \subseteq DOMAIN wb.sheets
    /\ Len(wb.sheets["Inventario"].rows) > 0
    /\ Len(wb.sheets["Outlet"].rows) > 0
    /\ InvHeaders \subseteq wb.sheets["Inventario"].columns
    /\ OutHeaders \subseteq wb.sheets["Outlet"].columns

RawInv == Input.sheets["Inventario"]

RawOut == Input.sheets["Outlet"]

\* the sum of the nine monthly cells of a raw outlet row
MonthTotal(row) ==
    IntSum([m \in 1..Len(monthly_columns) |-> Counts(row[monthly_columns[m]])],
           Len(monthly_columns))

\* C5: non-numeric text or a blank in a cell of a coerced numeric column
\* (Stock, Precio Sala, Outlet; Stock al 1 de oct and the nine monthly columns)
\* counts as 0 in the returned tables, raises no error, and leaves the other
\* cells with their own values.
C5_CellsCoerced ==
    (Processed /\ Complete(Input)) =>
        /\ LastCall.ok
        /\ Len(inventario_df.rows) = Len(RawInv.rows)
        /\ Len(outlet_df.rows) = Len(RawOut.rows)
        /\ \A i \in Rows(RawInv) :
              /\ inventario_df.rows[i]["Units_Sold"] = Fin(Counts(RawInv.rows[i]["Stock"]))
              /\ inventario_df.rows[i]["Floor_Price"] = Fin(Counts(RawInv.rows[i]["Precio Sala"]))
              /\ inventario_df.rows[i]["Outlet_Price"] = Fin(Counts(RawInv.rows[i]["Outlet"]))
        /\ \A i \in Rows(RawOut) :
              /\ outlet_df.rows[i]["Units_In_Stock"] =
                    Fin(Counts(RawOut.rows[i]["Stock al 1 de oct"]))
              /\ outlet_df.rows[i]["Total_Units_Sold"] = Fin(MonthTotal(RawOut.rows[i]))

\* C6 as stated: a workbook with a table of zero data rows, or with a table
\* that lacks one of its expected raw columns, ends the call in an error.
C6_ErrorOnAnyMissingColumn ==
    (/\ Processed
     /\ Input.readable
     /\ {"Inventario", "Outlet"} \subseteq DOMAIN Input.sheets
     /\ \/ Len(RawInv.rows) = 0
        \/ Len(RawOut.rows) = 0
        \/ ~(InvHeaders \subseteq RawInv.columns)
        \/ ~(OutHeaders \subseteq RawOut.columns))
        => Raised

\* the raw columns load_and_process_inventory reads
ReadInv == {"Descripcion", "Stock", "Precio Sala", "Outlet"}

ReadOut == {"Stock al 1 de oct"} \cup MonthSet

MetricFields ==
    {"total_sales_outlet", "total_sales_floor", "total_units_sold", "avg_selling_price",
     "avg_discount", "inventory_turnover", "sell_through_rate", "stock_to_sales_ratio",
     "inventory_coverage", "best_seller", "worst_seller", "unsold_items"}

\* the outcome of a call on a workbook that has both sheets
C6_Outcome ==
    (Processed /\ Input.readable /\ {"Inventario", "Outlet"} \subseteq DOMAIN Input.sheets) =>
        LET empty == Len(RawInv.rows) = 0 \/ Len(RawOut.rows) = 0
            lacks == ~(ReadInv \subseteq RawInv.columns) \/ ~(ReadOut \subseteq RawOut.columns)
        IN  /\ empty =>
                  /\ Raised
                  /\ errors[Len(errors)].text =
                        "ValueError: Error loading Excel file: One or more sheets are empty"
            /\ (~empty /\ lacks) => (Raised /\ errors[Len(errors)].text = "KeyError")
            /\ (~empty /\ ~lacks /\ ~MonthlyHasText(RawOut)) => Returned
            /\ Returned =>
                  /\ DOMAIN metrics = MetricFields
                  /\ Len(inventario_df.rows) = Len(RawInv.rows)
                  /\ Len(outlet_df.rows) = Len(RawOut.rows)
                  /\ processed_data[uploaded_files[LastCall.file].name] =
                        [inventario_df |-> inventario_df, outlet_df |-> outlet_df,
                         metrics |-> metrics]

\* C6 (amended): load_and_process_inventory ends in an error when a required
\* table has zero data rows (tested before any column is renamed or read) or
\* lacks a raw column the function reads, and otherwise returns a complete
\* triple; a call that ends in an error hands the caller no table and no
\* metrics.
C6_ErrorOrTriple ==
    [][(calls' # calls /\ Processed') =>
          /\ C6_Outcome'
          /\ Raised' =>
                /\ UNCHANGED << processed_data, inventario_df, outlet_df, metrics >>
                /\ errors' # errors]_vars

\* an inventory sheet with headers but no rows and no "Stock" column: the
\* error is the one of the empty-table test
C6_Witness ==
    /\ Raised
    /\ Input.readable
    /\ {"Inventario", "Outlet"} \subseteq DOMAIN Input.sheets
    /\ Len(RawInv.rows) = 0
    /\ RawInv.columns # {}
    /\ "Stock" \notin RawInv.columns
    /\ errors[Len(errors)].text =
          "ValueError: Error loading Excel file: One or more sheets are empty"
    /\ processed_data = << >>
    /\ metrics = Unbound

\* file i passed validation and processing
Passed(i) == \E k \in 1..Len(calls) : calls[k] = [op |-> "process", file |-> i, ok |-> TRUE]

TripleOf(wb) ==
    [inventario_df |-> load_and_process_inventory(wb).inventario_df,
     outlet_df |-> load_and_process_inventory(wb).outlet_df,
     metrics |-> load_and_process_inventory(wb).metrics]

\* C7: load_and_process_inventory is called on a file only after
\* validate_excel_file succeeded on it; a failure skips that file only; when
\* the loop ends processed_data holds, for each file that passed both steps,
\* the triple of that file under that file's name, and no entry for a file
\* that failed.
C7_BatchLoop ==
    /\ \A k \in 1..Len(calls) :
          calls[k].op = "process" =>
              (k > 1 /\ calls[k - 1] = [op |-> "validate", file |-> calls[k].file, ok |-> TRUE])
    /\ \A i \in 1..Len(uploaded_files) :
          i < idx =>
              /\ \E k \in 1..Len(calls) : calls[k].op = "validate" /\ calls[k].file = i
              /\ validate_excel_file(uploaded_files[i].wb).is_valid =>
                    \E k \in 1..Len(calls) : calls[k].op = "process" /\ calls[k].file = i
    /\ pc = "done" =>
          /\ idx = Len(uploaded_files) + 1
          /\ \A i \in 1..Len(uploaded_files) :
                IF Passed(i)
                THEN /\ uploaded_files[i].name \in DOMAIN processed_data
                     /\ processed_data[uploaded_files[i].name] = TripleOf(uploaded_files[i].wb)
                ELSE uploaded_files[i].name \notin DOMAIN processed_data

\* C8: every returned outlet row has total_units_sold = the sum of its nine
\* monthly columns and beginning_inventory = total_units_sold + units_in_stock,
\* and metrics.total_units_sold is the sum of total_units_sold over the rows.
C8_UnitsAndInventory ==
    Returned =>
        /\ \A i \in Rows(outlet_df) :
              /\ outlet_df.rows[i]["Total_Units_Sold"] = Fin(MonthTotal(outlet_df.rows[i]))
              /\ outlet_df.rows[i]["Beginning_Inventory"] =
                    Fin(MonthTotal(outlet_df.rows[i]) + outlet_df.rows[i]["Units_In_Stock"].n)
        /\ metrics.total_units_sold = Fin(SumTotalUnitsSold)

\* two outlet rows with units in stock, a blank monthly cell in one of them
C8_Witness ==
    /\ Returned
    /\ Len(outlet_df.rows) = 2
    /\ outlet_df.rows[1]["Units_In_Stock"] = Fin(1)
    /\ outlet_df.rows[1]["Marzo"] = NaN
    /\ outlet_df.rows[2]["Marzo"] = Fin(2)
    /\ outlet_df.rows[1]["Total_Units_Sold"] = Fin(4)
    /\ outlet_df.rows[1]["Beginning_Inventory"] = Fin(5)
    /\ metrics.total_units_sold = Fin(10)

\* row i is the first inventory row whose coerced units_sold is the maximum
FirstMax(i) ==
    /\ \A j \in Rows(RawInv) : Counts(RawInv.rows[j]["Stock"]) <= Counts(RawInv.rows[i]["Stock"])
    /\ \A j \in 1..(i - 1) : Counts(RawInv.rows[j]["Stock"]) < Counts(RawInv.rows[i]["Stock"])

FirstMin(i) ==
    /\ \A j \in Rows(RawInv) : Counts(RawInv.rows[j]["Stock"]) >= Counts(RawInv.rows[i]["Stock"])
    /\ \A j \in 1..(i - 1) : Counts(RawInv.rows[j]["Stock"]) > Counts(RawInv.rows[i]["Stock"])

\* C9: best_seller and worst_seller are the description and units_sold of the
\* inventory row with the maximum, respectively minimum, coerced units_sold,
\* the first such row in source order when several share the extreme.
C9_BestWorstSeller ==
    Returned =>
        \A i \in Rows(RawInv) :
            /\ FirstMax(i) =>
                  metrics.best_seller =
                      [description |-> RawInv.rows[i]["Descripcion"],
                       units |-> Fin(Counts(RawInv.rows[i]["Stock"]))]
            /\ FirstMin(i) =>
                  metrics.worst_seller =
                      [description |-> RawInv.rows[i]["Descripcion"],
                       units |-> Fin(Counts(RawInv.rows[i]["Stock"]))]

\* two rows of different descriptions share the maximum (and the minimum)
C9_Witness ==
    /\ Returned
    /\ Len(RawInv.rows) = 2
    /\ RawInv.rows[1]["Descripcion"] = Txt("B")
    /\ RawInv.rows[2]["Descripcion"] = Txt("A")
    /\ RawInv.rows[1]["Stock"] = Fin(2)
    /\ RawInv.rows[2]["Stock"] = Fin(2)
    /\ metrics.best_seller = [description |-> Txt("B"), units |-> Fin(2)]
    /\ metrics.worst_seller = [description |-> Txt("B"), units |-> Fin(2)]

IsUnsold(row) == Counts(row["Stock"]) = 0

\* C10: unsold_items lists the description of exactly the inventory rows whose
\* coerced units_sold is 0, one entry per row, in source order.
C10_UnsoldItems ==
    Returned =>
        LET unsold == SelectSeq(RawInv.rows, IsUnsold)
        IN  /\ Len(metrics.unsold_items) = Len(unsold)
            /\ \A k \in 1..Len(unsold) : metrics.unsold_items[k] = unsold[k]["Descripcion"]

\* two unsold rows of the same description (one by a text cell)
C10_Witness ==
    /\ Returned
    /\ Len(RawInv.rows) = 2
    /\ RawInv.rows[1]["Stock"] = Txt("N/A")
    /\ RawInv.rows[2]["Stock"] = Zero
    /\ metrics.unsold_items = << Txt("A"), Txt("A") >>

\* the raw cell is a number below 0
IsNegative(cell) == cell.k = "fin" /\ cell.n < 0

\* the coerced value v of a raw cell: a number, below 0 exactly when the raw
\* cell is a negative number, and then that number
KeepsSign(v, cell) ==
    /\ v.k = "fin"
    /\ v.d = 1
    /\ (v.n < 0) = IsNegative(cell)
    /\ IsNegative(cell) => v.n = cell.n

\* C11 as stated: after normalization units_sold, floor_price, outlet_price
\* and units_in_stock are >= 0 for every raw cell, negative numbers included.
C11_NonNegative ==
    Returned =>
        /\ \A i \in Rows(inventario_df) :
              /\ inventario_df.rows[i]["Units_Sold"].n >= 0
              /\ inventario_df.rows[i]["Floor_Price"].n >= 0
              /\ inventario_df.rows[i]["Outlet_Price"].n >= 0
        /\ \A i \in Rows(outlet_df) : outlet_df.rows[i]["Units_In_Stock"].n >= 0

\* C11 (amended): after normalization units_sold, floor_price, outlet_price
\* and units_in_stock are numbers, >= 0 for every raw cell that holds a
\* number >= 0, text or a blank; a negative raw number is kept as it is.
C11_NonNegativeUnlessRawNegative ==
    Returned =>
        /\ \A i \in Rows(inventario_df) :
              /\ KeepsSign(inventario_df.rows[i]["Units_Sold"], RawInv.rows[i]["Stock"])
              /\ KeepsSign(inventario_df.rows[i]["Floor_Price"], RawInv.rows[i]["Precio Sala"])
              /\ KeepsSign(inventario_df.rows[i]["Outlet_Price"], RawInv.rows[i]["Outlet"])
        /\ \A i \in Rows(outlet_df) :
              KeepsSign(outlet_df.rows[i]["Units_In_Stock"], RawOut.rows[i]["Stock al 1 de oct"])

\* a row with text, a blank and a negative number in its coerced cells
C11_Witness ==
    /\ Returned
    /\ RawInv.rows[1]["Stock"] = Txt("N/A")
    /\ RawInv.rows[1]["Precio Sala"] = NaN
    /\ RawInv.rows[1]["Outlet"] = Fin(-1)
    /\ RawOut.rows[1]["Stock al 1 de oct"] = Fin(-1)
    /\ inventario_df.rows[1]["Units_Sold"] = Zero
    /\ inventario_df.rows[1]["Floor_Price"] = Zero
    /\ inventario_df.rows[1]["Outlet_Price"] = Fin(-1)
    /\ outlet_df.rows[1]["Units_In_Stock"] = Fin(-1)

\* the per-row values the two means of C12 are taken over, a row with a zero
\* denominator counting as 0
RowSellingPrice(row) ==
    IF IsZero(row["Units_Sold"]) THEN Zero
    ELSE Div(Mul(row["Outlet_Price"], row["Units_Sold"]), row["Units_Sold"])

RowDiscount(row) ==
    IF IsZero(row["Floor_Price"]) THEN Zero
    ELSE Mul(Div(Sub(row["Floor_Price"], row["Outlet_Price"]), row["Floor_Price"]), Fin(100))

RECURSIVE RatSum(_, _)
RatSum(f, n) == IF n = 0 THEN Zero ELSE Add(RatSum(f, n - 1), f[n])

\* C12: avg_selling_price is the sum of the per-row average_selling_price
\* over all inventory rows divided by the number of rows, a row with
\* units_sold = 0 counting as one row that contributes 0; avg_discount is the
\* same unweighted mean of discount_percentage.
C12_UnweightedMeans ==
    Returned =>
        LET n == Len(inventario_df.rows)
        IN  /\ metrics.avg_selling_price =
                  Div(RatSum([i \in 1..n |-> RowSellingPrice(inventario_df.rows[i])], n), Fin(n))
            /\ metrics.avg_discount =
                  Div(RatSum([i \in 1..n |-> RowDiscount(inventario_df.rows[i])], n), Fin(n))

\* the sums of C13 over the raw sheets
RawPaired == IF Len(RawOut.rows) < Len(RawInv.rows) THEN Len(RawOut.rows) ELSE Len(RawInv.rows)

RawStockValue ==
    IntSum([i \in 1..RawPaired |->
               Counts(RawOut.rows[i]["Stock al 1 de oct"]) * Counts(RawInv.rows[i]["Outlet"])],
           RawPaired)

RawSales ==
    IntSum([i \in Rows(RawInv) |->
               Counts(RawInv.rows[i]["Stock"]) * Counts(RawInv.rows[i]["Outlet"])],
           Len(RawInv.rows))

\* C13: when total_sales_outlet is not 0, stock_to_sales_ratio is (the sum
\* over the row positions present in both tables of units_in_stock[i] *
\* outlet_price[i]) / total_sales_outlet, whatever the item numbers are, and
\* is a finite number.
C13_PositionalRatio ==
    (Returned /\ RawSales # 0) =>
        /\ metrics.total_sales_outlet = Fin(RawSales)
        /\ metrics.stock_to_sales_ratio.k = "fin"
        /\ metrics.stock_to_sales_ratio.d > 0
        /\ metrics.stock_to_sales_ratio.n * RawSales =
              RawStockValue * metrics.stock_to_sales_ratio.d

\* two inventory rows and one outlet row that carries the item number of
\* the second inventory row but is paired with the first
C13_Witness ==
    /\ Returned
    /\ Len(RawInv.rows) = 2
    /\ Len(RawOut.rows) = 1
    /\ RawInv.rows[1]["Codigo"] = Fin(1)
    /\ RawInv.rows[1]["Outlet"] = Fin(1)
    /\ RawInv.rows[2]["Outlet"] = Fin(2)
    /\ RawInv.rows[1]["Stock"] = Fin(1)
    /\ RawInv.rows[2]["Stock"] = Fin(1)
    /\ RawInv.rows[2]["Codigo"] = Fin(2)
    /\ RawOut.rows[1]["Numero de articulo"] = Fin(2)
    /\ RawOut.rows[1]["Stock al 1 de oct"] = Fin(2)
    /\ metrics.stock_to_sales_ratio = Rat(2, 3)

\* C14: after a batch of two or more files has been processed, the
\* individual file analysis shows, for each entry of processed_data, the
\* metrics and the tables of that entry's own file, and under no file the
\* values of another file.
C14_OwnFileRendered ==
    (pc = "rendered" /\ Len(processed_keys) >= 2) =>
        /\ Len(page.expanders) = Len(processed_keys)
        /\ \A i \in 1..Len(page.expanders) :
              LET own == processed_data[page.expanders[i].file_name]
              IN  /\ page.expanders[i].file_name = processed_keys[i]
                  /\ page.expanders[i].metrics = own.metrics
                  /\ page.metrics = own.metrics
                  /\ page.inventario_df = own.inventario_df
                  /\ page.outlet_df = own.outlet_df

====
